---- MODULE Spec2Model ----
(***************************************************************************)
(* Model of the CPI pipeline of src/src/cpi_calculater.py and of the       *)
(* scoped store connection of src/src/clickhouse_connector.py.             *)
(*                                                                         *)
(* Numbers are pandas float64 values: a finite value is kept as an exact   *)
(* signed fraction n/d in lowest terms (zero keeps its sign), and the      *)
(* special values the arithmetic of the program can produce, NaN, +inf and *)
(* -inf, are kept as such.  A raw cell of a query result is either a       *)
(* number (a weight may be the -1 the cleaner writes for a missing cell)   *)
(* or a text that pandas.to_numeric(errors='coerce') cannot parse.         *)
(***************************************************************************)
EXTENDS Integers, Sequences, FiniteSets, TLC

\* ------------------------------------------------------------------ bounds
MaxPrice == 2
MaxWeight == 1
MaxTime == 2
MaxRows == 2
MaxDay == 4
MaxLen == 2

Categories == {"A", "B"}
Times == 1..MaxTime
Days == 0..MaxDay
Granularities == {"month", "day"}

\* ------------------------------------------------------- float64 arithmetic
\* A value is [k, n, d]: k = "num" is the fraction n/d in lowest terms with
\* d > 0, except that zero keeps its sign in d (0/1 is +0.0, 0/-1 is -0.0);
\* k = "inf" is +inf (n = 1) or -inf (n = -1); k = "nan" is NaN; k = "str"
\* is a raw cell that is not a number.
RECURSIVE GCD(_, _)
GCD(a, b) == IF b = 0 THEN a ELSE GCD(b, a % b)

Abs(x) == IF x < 0 THEN -x ELSE x

NaN == [k |-> "nan", n |-> 0, d |-> 1]
Inf == [k |-> "inf", n |-> 1, d |-> 1]
NegInf == [k |-> "inf", n |-> -1, d |-> 1]
Text == [k |-> "str", n |-> 0, d |-> 1]

SignedInf(sg) == IF sg > 0 THEN Inf ELSE NegInf
SignedZero(sg) == [k |-> "num", n |-> 0, d |-> IF sg > 0 THEN 1 ELSE -1]

\* the fraction n/d, d # 0, n # 0, in lowest terms with a positive denominator
Frac(n, d) ==
    LET g == GCD(Abs(n), Abs(d))
        sg == IF (n < 0) = (d < 0) THEN 1 ELSE -1
    IN [k |-> "num", n |-> sg * (Abs(n) \div g), d |-> Abs(d) \div g]

Int2Num(i) == [k |-> "num", n |-> i, d |-> 1]
Zero == Int2Num(0)
Hundred == Int2Num(100)

IsNaN(x) == x.k = "nan"
IsInf(x) == x.k = "inf"
IsNum(x) == x.k = "num"
IsZero(x) == x.k = "num" /\ x.n = 0

\* sign bit of a value that is not NaN: 1 or -1
Sign(x) ==
    IF IsInf(x) THEN x.n
    ELSE IF x.n > 0 THEN 1
    ELSE IF x.n < 0 THEN -1
    ELSE x.d

\* pd.to_numeric(col, errors='coerce'): a number stays, anything else is NaN
to_numeric(x) == IF x.k = "str" THEN NaN ELSE x

\* float64 division as numpy performs it (no exception on a zero divisor)
Div(a, b) ==
    IF IsNaN(a) \/ IsNaN(b) THEN NaN
    ELSE IF IsInf(a) THEN (IF IsInf(b) THEN NaN ELSE SignedInf(Sign(a) * Sign(b)))
    ELSE IF IsInf(b) THEN SignedZero(Sign(a) * Sign(b))
    ELSE IF b.n = 0 THEN (IF a.n = 0 THEN NaN ELSE SignedInf(Sign(a) * Sign(b)))
    ELSE IF a.n = 0 THEN SignedZero(Sign(a) * Sign(b))
    ELSE Frac(a.n * b.d, a.d * b.n)

\* float64 multiplication
Mul(a, b) ==
    IF IsNaN(a) \/ IsNaN(b) THEN NaN
    ELSE IF IsInf(a) \/ IsInf(b)
         THEN (IF IsZero(a) \/ IsZero(b) THEN NaN ELSE SignedInf(Sign(a) * Sign(b)))
    ELSE IF a.n = 0 \/ b.n = 0 THEN SignedZero(Sign(a) * Sign(b))
    ELSE Frac(a.n * b.n, a.d * b.d)

\* float64 addition: inf + -inf is NaN, x + -x is +0.0
Add(a, b) ==
    IF IsNaN(a) \/ IsNaN(b) THEN NaN
    ELSE IF IsInf(a) /\ IsInf(b) THEN (IF a.n = b.n THEN a ELSE NaN)
    ELSE IF IsInf(a) THEN a
    ELSE IF IsInf(b) THEN b
    ELSE IF a.n = 0 /\ b.n = 0 THEN SignedZero(IF Sign(a) < 0 /\ Sign(b) < 0 THEN -1 ELSE 1)
    ELSE IF a.n = 0 THEN b
    ELSE IF b.n = 0 THEN a
    ELSE LET n == a.n * b.d + b.n * a.d
         IN IF n = 0 THEN Zero ELSE Frac(n, a.d * b.d)

\* Series.sum() of a groupby aggregation: NaN cells are skipped, the sum
\* starts from 0 and the sum of no cells is 0.  f is a function from row
\* keys to values.
RECURSIVE SumSkipNa(_, _)
SumSkipNa(f, K) ==
    IF K = {} THEN Zero
    ELSE LET x == CHOOSE y \in K : TRUE
             rest == SumSkipNa(f, K \ {x})
         IN IF IsNaN(f[x]) THEN rest ELSE Add(f[x], rest)

\* ------------------------------------------------------------ query results
\* Raw cells the store can return.  The average price of a time bucket is a
\* positive number (prices are cleaned to be positive); a base price or a
\* weight may be zero, missing or unparseable, and a weight may be the -1
\* that the cleaner writes into the empty cells of the categories file.
PriceVals == {Int2Num(i) : i \in 1..MaxPrice}
BaseVals == {Text} \cup {Int2Num(i) : i \in 0..MaxPrice}
WeightVals == {Text} \cup {Int2Num(i) : i \in -1..MaxWeight}

PartialFns(D, V) == UNION {[S -> V] : S \in SUBSET D}

\* base query: GROUP BY category_id, one row per category
BaseResults == PartialFns(Categories, BaseVals)
\* period query: GROUP BY time_period, category_id
TimeResults == UNION {[S -> PriceVals] :
                  S \in {K \in SUBSET (Times \X Categories) : Cardinality(K) <= MaxRows}}
\* weight query: one row per category of hierarchy '3'
WeightResults == PartialFns(Categories, WeightVals)

\* the results of a store that holds at most one period row and whose base
\* prices and weights are all 1
FewBaseResults == PartialFns(Categories, {Int2Num(1)})
FewTimeResults == {t \in TimeResults : Cardinality(DOMAIN t) <= 1}
FewWeightResults == PartialFns(Categories, {Int2Num(1)})

Empty == [x \in {} |-> Zero]

VARIABLES
    op,           \* the function that is running: "none", "calculate_cpi", "execute", "save"
    pc,           \* its position
    exc,          \* the exception that is propagating or was raised, "none" if none
    granularity,  \* argument of calculate_cpi
    conn,         \* the client created last: "none", "open", "closed"
    base_df, time_df, weight_df,   \* the three query results
    merged,       \* the joined frame, keyed by <<time_period, category_id>>
    warnings,     \* the warnings the run has logged, in order
    agg,          \* the groupby aggregate: time_period -> total_weight, total_weighted
    cpi_result,   \* the series, ascending by time_period
    daily_data, monthly_data,      \* arguments of save_combined_results
    daily_cols, monthly_cols,      \* whether the argument has its time column
    combined      \* the frame save_combined_results writes

cpiVars == <<granularity, base_df, time_df, weight_df, merged, warnings, agg, cpi_result>>
connVars == <<conn>>
saveVars == <<daily_data, monthly_data, daily_cols, monthly_cols, combined>>
vars == <<op, pc, exc, cpiVars, connVars, saveVars>>

Init ==
    /\ op = "none"
    /\ pc = "idle"
    /\ exc = "none"
    /\ granularity = "month"
    /\ conn = "none"
    /\ base_df = Empty
    /\ time_df = Empty
    /\ weight_df = Empty
    /\ merged = Empty
    /\ warnings = <<>>
    /\ agg = Empty
    /\ cpi_result = <<>>
    /\ daily_data = <<>>
    /\ monthly_data = <<>>
    /\ daily_cols = TRUE
    /\ monthly_cols = TRUE
    /\ combined = <<>>

\* ------------------------------------------------------ ClickHouseConnector
\* ClickHouseConnector(): __init__ loads settings.yml, which can fail;
\* __enter__ then creates the client.
ConnectorEnter(next) ==
    /\ pc = "enter"
    /\ \/ /\ conn' = "open"
          /\ pc' = next
          /\ exc' = exc
       \/ /\ UNCHANGED connVars
          /\ pc' = "raised"
          /\ exc' = "ConfigError"

\* a release that is skipped when an exception is pending
ConnectorExitOnSuccessOnly(next) ==
    /\ pc \in {"exit_ok", "exit_exc"}
    /\ conn' = IF conn = "open" /\ pc = "exit_ok" THEN "closed" ELSE conn
    /\ pc' = IF pc = "exit_ok" THEN next ELSE "raised"
    /\ exc' = exc

\* __exit__: disconnect the client if one was created; the pending
\* exception, if any, goes on to the caller
ConnectorExit(next) ==
    /\ pc \in {"exit_ok", "exit_exc"}
    /\ conn' = IF conn = "open" THEN "closed" ELSE conn
    /\ pc' = IF pc = "exit_ok" THEN next ELSE "raised"
    /\ exc' = exc

\* ClickHouseConnector.execute(query, params)
Execute ==
    /\ pc = "idle"
    /\ op' = "execute"
    /\ pc' = "enter"
    /\ UNCHANGED <<exc, cpiVars, connVars, saveVars>>

ExecuteEnter ==
    /\ op = "execute"
    /\ ConnectorEnter("query")
    /\ UNCHANGED <<op, cpiVars, saveVars>>

ExecuteQuery ==
    /\ op = "execute"
    /\ pc = "query"
    /\ \/ pc' = "exit_ok" /\ exc' = exc
       \/ pc' = "exit_exc" /\ exc' = "DataSourceError"
    /\ UNCHANGED <<op, cpiVars, connVars, saveVars>>

ExecuteExit ==
    /\ op = "execute"
    /\ ConnectorExit("done")
    /\ UNCHANGED <<op, cpiVars, saveVars>>

\* ------------------------------------------------------------ calculate_cpi
CalculateCpi ==
    /\ pc = "idle"
    /\ op' = "calculate_cpi"
    /\ granularity' \in Granularities
    /\ pc' = "enter"
    /\ UNCHANGED <<exc, base_df, time_df, weight_df, merged, warnings, agg, cpi_result,
                   connVars, saveVars>>

CpiEnter ==
    /\ op = "calculate_cpi"
    /\ ConnectorEnter("base")
    /\ UNCHANGED <<op, cpiVars, saveVars>>

\* 1. base prices; the query either returns rows or raises
QueryBase(results) ==
    /\ op = "calculate_cpi"
    /\ pc = "base"
    /\ \/ /\ base_df' \in results
          /\ pc' = "period"
          /\ exc' = exc
       \/ /\ base_df' = base_df
          /\ pc' = "exit_exc"
          /\ exc' = "DataSourceError"
    /\ UNCHANGED <<op, granularity, time_df, weight_df, merged, warnings, agg,
                   cpi_result, connVars, saveVars>>

\* 2. prices per time bucket
QueryPeriod(results) ==
    /\ op = "calculate_cpi"
    /\ pc = "period"
    /\ \/ /\ time_df' \in results
          /\ pc' = "weights"
          /\ exc' = exc
       \/ /\ time_df' = time_df
          /\ pc' = "exit_exc"
          /\ exc' = "DataSourceError"
    /\ UNCHANGED <<op, granularity, base_df, weight_df, merged, warnings, agg,
                   cpi_result, connVars, saveVars>>

\* 3. category weights
QueryWeights(results) ==
    /\ op = "calculate_cpi"
    /\ pc = "weights"
    /\ \/ /\ weight_df' \in results
          /\ pc' = "exit_ok"
          /\ exc' = exc
       \/ /\ weight_df' = weight_df
          /\ pc' = "exit_exc"
          /\ exc' = "DataSourceError"
    /\ UNCHANGED <<op, granularity, base_df, time_df, merged, warnings, agg,
                   cpi_result, connVars, saveVars>>

CpiExit ==
    /\ op = "calculate_cpi"
    /\ ConnectorExit("merge")
    /\ UNCHANGED <<op, cpiVars, saveVars>>

\* the join with the weights taken as a left join: a period row without a
\* weight row is kept, its weight null
InnerJoinLeft(t, b, w) ==
    LET K == {k \in DOMAIN t : k[2] \in DOMAIN b}
    IN [k \in K |-> [avg_price |-> to_numeric(t[k]),
                     base_price |-> to_numeric(b[k[2]]),
                     weight |-> IF k[2] \in DOMAIN w THEN to_numeric(w[k[2]]) ELSE NaN]]

\* time_df.merge(base_df, how='inner').merge(weight_df, how='inner') on
\* category_id, followed by the numeric coercion of the three columns
InnerJoin(t, b, w) ==
    LET K == {k \in DOMAIN t : k[2] \in DOMAIN b /\ k[2] \in DOMAIN w}
    IN [k \in K |-> [avg_price |-> to_numeric(t[k]),
                     base_price |-> to_numeric(b[k[2]]),
                     weight |-> to_numeric(w[k[2]])]]

\* the join without the check for an empty frame
MergeNoEmptyCheck ==
    /\ op = "calculate_cpi"
    /\ pc = "merge"
    /\ merged' = InnerJoin(time_df, base_df, weight_df)
    /\ pc' = "index"
    /\ exc' = exc
    /\ UNCHANGED <<op, granularity, base_df, time_df, weight_df, warnings, agg,
                   cpi_result, connVars, saveVars>>

\* 4. join; an empty join raises ValueError
Merge ==
    /\ op = "calculate_cpi"
    /\ pc = "merge"
    /\ merged' = InnerJoin(time_df, base_df, weight_df)
    /\ IF DOMAIN merged' = {}
       THEN pc' = "raised" /\ exc' = "ValueError"
       ELSE pc' = "index" /\ exc' = exc
    /\ UNCHANGED <<op, granularity, base_df, time_df, weight_df, warnings, agg,
                   cpi_result, connVars, saveVars>>

\* number of rows the warning reports: merged['base_price'].isna().sum()
InvalidBase(m) == Cardinality({k \in DOMAIN m : IsNaN(m[k].base_price)})

price_index(r) == Mul(Div(r.avg_price, r.base_price), Hundred)

\* merged['price_index'] = (merged['avg_price'] / merged['base_price']) * 100
WithIndex(m) ==
    [k \in DOMAIN m |-> [avg_price |-> m[k].avg_price,
                         base_price |-> m[k].base_price,
                         weight |-> m[k].weight,
                         price_index |-> price_index(m[k])]]

\* warning about invalid base prices, then price_index per row
PriceIndex ==
    /\ op = "calculate_cpi"
    /\ pc = "index"
    /\ warnings' = IF InvalidBase(merged) > 0
                   THEN Append(warnings, [kind |-> "invalid_base_price",
                                          count |-> InvalidBase(merged)])
                   ELSE warnings
    /\ merged' = WithIndex(merged)
    /\ pc' = "weighting"
    /\ UNCHANGED <<exc, op, granularity, base_df, time_df, weight_df, agg,
                   cpi_result, connVars, saveVars>>

\* merged['weighted'] = merged['price_index'] * merged['weight']
weighted(r) == Mul(r.price_index, r.weight)

WithWeighted(m) ==
    [k \in DOMAIN m |-> [avg_price |-> m[k].avg_price,
                         base_price |-> m[k].base_price,
                         weight |-> m[k].weight,
                         price_index |-> m[k].price_index,
                         weighted |-> weighted(m[k])]]

\* ascending sequence of the elements of a finite set of integers
RECURSIVE SortAsc(_)
SortAsc(S) ==
    IF S = {} THEN <<>>
    ELSE LET m == CHOOSE x \in S : \A y \in S : x <= y
         IN <<m>> \o SortAsc(S \ {m})

\* groupby('time_period').agg(total_weight=('weight','sum'),
\*                            total_weighted=('weighted','sum'))
GroupBy(m) ==
    LET T == {k[1] : k \in DOMAIN m}
        rows(t) == {k \in DOMAIN m : k[1] = t}
        wt == [k \in DOMAIN m |-> m[k].weight]
        wd == [k \in DOMAIN m |-> m[k].weighted]
    IN [t \in T |-> [total_weight |-> SumSkipNa(wt, rows(t)),
                     total_weighted |-> SumSkipNa(wd, rows(t))]]

\* cpi = total_weighted / total_weight, then reset_index()[['time_period','cpi']]
CpiSeries(a) ==
    LET s == SortAsc(DOMAIN a)
    IN [i \in 1..Len(s) |-> [time_period |-> s[i],
                             cpi |-> Div(a[s[i]].total_weighted, a[s[i]].total_weight)]]

\* 5. weighted CPI per time bucket
Weighting ==
    /\ op = "calculate_cpi"
    /\ pc = "weighting"
    /\ merged' = WithWeighted(merged)
    /\ agg' = GroupBy(merged')
    /\ cpi_result' = CpiSeries(agg')
    /\ pc' = "rebase"
    /\ UNCHANGED <<exc, op, granularity, base_df, time_df, weight_df, warnings,
                   connVars, saveVars>>

\* base_date = min time_period; base_cpi = cpi of that row;
\* cpi_index = cpi / base_cpi * 100; columns renamed by granularity
RebaseSeries(s, g) ==
    LET base_date == CHOOSE t \in {s[i].time_period : i \in 1..Len(s)} :
                        \A i \in 1..Len(s) : t <= s[i].time_period
        base_cpi == (CHOOSE r \in {s[i] : i \in 1..Len(s)} : r.time_period = base_date).cpi
    IN [i \in 1..Len(s) |->
          [granularity |-> g,
           time_period |-> s[i].time_period,
           cpi |-> s[i].cpi,
           cpi_index |-> Mul(Div(s[i].cpi, base_cpi), Hundred)]]

\* dynamic rebase and return; an empty series raises ValueError
Rebase ==
    /\ op = "calculate_cpi"
    /\ pc = "rebase"
    /\ IF Len(cpi_result) = 0
       THEN cpi_result' = cpi_result /\ pc' = "raised" /\ exc' = "ValueError"
       ELSE cpi_result' = RebaseSeries(cpi_result, granularity) /\ pc' = "done" /\ exc' = exc
    /\ UNCHANGED <<op, granularity, base_df, time_df, weight_df, merged, warnings,
                   agg, connVars, saveVars>>

\* ---------------------------------------------------- save_combined_results
\* A series is a sequence of rows; time_period is a calendar date counted in
\* days and row stands for the other columns of the row (cpi, cpi_index).
RECURSIVE SeqsUpTo(_, _)
SeqsUpTo(S, n) ==
    IF n = 0 THEN {<<>>}
    ELSE LET shorter == SeqsUpTo(S, n - 1)
         IN shorter \cup {Append(q, x) : q \in {r \in shorter : Len(r) = n - 1}, x \in S}

Distinct(q) == \A i, j \in 1..Len(q) : i # j => q[i] # q[j]

Series(q) == [i \in 1..Len(q) |-> [time_period |-> q[i], row |-> i]]

\* daily rows may repeat a date; the monthly series has one row per month
DailyInputs == {Series(q) : q \in SeqsUpTo(Days, MaxLen)}
MonthlyInputs == {Series(q) : q \in {r \in SeqsUpTo(Days, MaxLen) : Distinct(r)}}

\* A frame without rows may also be without columns (pd.DataFrame()).
SaveCombinedResults ==
    /\ pc = "idle"
    /\ op' = "save"
    /\ monthly_data' \in MonthlyInputs
    /\ daily_data' \in DailyInputs
    /\ monthly_cols' \in IF Len(monthly_data') = 0 THEN BOOLEAN ELSE {TRUE}
    /\ daily_cols' \in IF Len(daily_data') = 0 THEN BOOLEAN ELSE {TRUE}
    /\ pc' = "to_datetime"
    /\ UNCHANGED <<exc, combined, cpiVars, connVars>>

\* pd.to_datetime of a date: midnight of that day, here in seconds
to_datetime(d) == d * 86400

ConvertColumn(s) ==
    [i \in 1..Len(s) |-> [time_period |-> to_datetime(s[i].time_period), row |-> s[i].row]]

\* the two time columns are converted in place, the daily one first; a
\* frame without the column raises KeyError, which is logged and re-raised
ToDatetime ==
    /\ op = "save"
    /\ pc = "to_datetime"
    /\ IF ~daily_cols
       THEN /\ UNCHANGED <<daily_data, monthly_data>>
            /\ pc' = "raised"
            /\ exc' = "KeyError"
       ELSE IF ~monthly_cols
       THEN /\ daily_data' = ConvertColumn(daily_data)
            /\ monthly_data' = monthly_data
            /\ pc' = "raised"
            /\ exc' = "KeyError"
       ELSE /\ daily_data' = ConvertColumn(daily_data)
            /\ monthly_data' = ConvertColumn(monthly_data)
            /\ pc' = "merge_asof"
            /\ exc' = exc
    /\ UNCHANGED <<op, daily_cols, monthly_cols, combined, cpiVars, connVars>>

\* sort_values(column): ascending, rows of equal key in their input order
RECURSIVE sort_values(_)
sort_values(s) ==
    IF Len(s) = 0 THEN <<>>
    ELSE LET i == CHOOSE a \in 1..Len(s) :
                    \A b \in 1..Len(s) :
                        \/ s[a].time_period < s[b].time_period
                        \/ s[a].time_period = s[b].time_period /\ a <= b
             rest == [j \in 1..(Len(s) - 1) |-> IF j < i THEN s[j] ELSE s[j + 1]]
         IN <<s[i]>> \o sort_values(rest)

\* position in the sorted right frame of the last key <= t, 0 if none
Backward(right, t) ==
    LET P == {i \in 1..Len(right) : right[i].time_period <= t}
    IN IF P = {} THEN 0 ELSE CHOOSE i \in P : \A j \in P : j <= i

\* position in the sorted right frame of the first key >= t, 0 if none
Forward(right, t) ==
    LET P == {i \in 1..Len(right) : right[i].time_period >= t}
    IN IF P = {} THEN 0 ELSE CHOOSE i \in P : \A j \in P : i <= j

\* nearest match that prefers the forward row on a tie
NearestTieForward(right, t) ==
    LET b == Backward(right, t)
        f == Forward(right, t)
    IN IF b # 0 /\ f # 0
       THEN (IF t - right[b].time_period < right[f].time_period - t THEN b ELSE f)
       ELSE (IF b # 0 THEN b ELSE f)

\* direction='nearest': the backward match unless the forward one is
\* strictly closer
Nearest(right, t) ==
    LET b == Backward(right, t)
        f == Forward(right, t)
    IN IF b # 0 /\ f # 0
       THEN (IF t - right[b].time_period <= right[f].time_period - t THEN b ELSE f)
       ELSE (IF b # 0 THEN b ELSE f)

NaT == -1

\* the rows of s at the positions P, in their order
RowsAt(s, P) == LET idx == SortAsc(P) IN [i \in 1..Len(idx) |-> s[idx[i]]]

\* an equality join on the time column: a daily row without a monthly row
\* of the same date is dropped
merge_exact(left, right) ==
    LET kept == RowsAt(left, {i \in 1..Len(left) :
                        \E j \in 1..Len(right) : right[j].time_period = left[i].time_period})
    IN [i \in 1..Len(kept) |->
          LET p == Backward(right, kept[i].time_period)
          IN [time_period_day |-> kept[i].time_period,
              day_row |-> kept[i].row,
              time_period_month |-> right[p].time_period,
              month_row |-> right[p].row]]

\* pd.merge_asof(left, right, direction='nearest'): one output row per left
\* row, the right columns null where the right frame has no row to offer
merge_asof(left, right) ==
    [i \in 1..Len(left) |->
        LET p == Nearest(right, left[i].time_period)
        IN [time_period_day |-> left[i].time_period,
            day_row |-> left[i].row,
            time_period_month |-> IF p = 0 THEN NaT ELSE right[p].time_period,
            month_row |-> IF p = 0 THEN 0 ELSE right[p].row]]

MergeAsof ==
    /\ op = "save"
    /\ pc = "merge_asof"
    /\ combined' = merge_asof(sort_values(daily_data), sort_values(monthly_data))
    /\ pc' = "write"
    /\ UNCHANGED <<exc, op, daily_data, monthly_data, daily_cols, monthly_cols,
                   cpiVars, connVars>>

\* output directory and combined.to_csv(csv_path): the path is returned,
\* or the file system refuses and the error is logged and re-raised
WriteCsv ==
    /\ op = "save"
    /\ pc = "write"
    /\ \/ pc' = "done" /\ exc' = exc
       \/ pc' = "raised" /\ exc' = "OSError"
    /\ UNCHANGED <<op, saveVars, cpiVars, connVars>>

\* ----------------------------------------------------- visualize_combined_cpi
VisualizeCombinedCpi ==
    /\ pc = "idle"
    /\ op' = "visualize"
    /\ pc' = "plot"
    /\ UNCHANGED <<exc, saveVars, cpiVars, connVars>>

\* the chart is drawn and saved, or an error (a column that is missing, a
\* path the file system refuses) is logged and re-raised
Plot ==
    /\ op = "visualize"
    /\ pc = "plot"
    /\ \/ pc' = "done" /\ exc' = exc
       \/ pc' = "raised" /\ exc' \in {"KeyError", "OSError"}
    /\ UNCHANGED <<op, saveVars, cpiVars, connVars>>

\* ------------------------------------------------------------------ callers
\* A call that has returned is followed by the caller's next call; the
\* locals of the call are gone, the client created last stays as it is.  An
\* error that reaches the caller ends the program.
Return ==
    /\ pc = "done"
    /\ op' = "none"
    /\ pc' = "idle"
    /\ exc' = "none"
    /\ granularity' = "month"
    /\ base_df' = Empty
    /\ time_df' = Empty
    /\ weight_df' = Empty
    /\ merged' = Empty
    /\ warnings' = <<>>
    /\ agg' = Empty
    /\ cpi_result' = <<>>
    /\ daily_data' = <<>>
    /\ monthly_data' = <<>>
    /\ daily_cols' = TRUE
    /\ monthly_cols' = TRUE
    /\ combined' = <<>>
    /\ conn' = conn

CpiNext ==
    \/ CalculateCpi
    \/ CpiEnter
    \/ QueryBase(BaseResults)
    \/ QueryPeriod(TimeResults)
    \/ QueryWeights(WeightResults)
    \/ CpiExit
    \/ Merge
    \/ PriceIndex
    \/ Weighting
    \/ Rebase

ConnNext ==
    \/ Execute
    \/ ExecuteEnter
    \/ ExecuteQuery
    \/ ExecuteExit

SaveNext ==
    \/ SaveCombinedResults
    \/ ToDatetime
    \/ MergeAsof
    \/ WriteCsv

PlotNext ==
    \/ VisualizeCombinedCpi
    \/ Plot

\* the calls a caller can make, one after the other, in any order and with any
\* arguments; the sequence of the main program is one of them
Next == CpiNext \/ ConnNext \/ SaveNext \/ PlotNext \/ Return

Spec == Init /\ [][Next]_vars

\* The connection scopes alone, against a store with few rows.  The program
\* is sequential and every call returns: a step that can be taken is taken.
ScopeNext ==
    \/ CalculateCpi
    \/ CpiEnter
    \/ QueryBase(FewBaseResults)
    \/ QueryPeriod(FewTimeResults)
    \/ QueryWeights(FewWeightResults)
    \/ CpiExit
    \/ Merge
    \/ PriceIndex
    \/ Weighting
    \/ Rebase
    \/ ConnNext
    \/ Return

FairSpec == Init /\ [][ScopeNext]_vars /\ WF_vars(ScopeNext)

\* ================================================================== claims
Running(positions) == op = "calculate_cpi" /\ pc \in positions

Matched == DOMAIN base_df \cap DOMAIN weight_df

\* the period rows without those of category c
Drop(t, c) == [k \in {j \in DOMAIN t : j[2] # c} |-> t[k]]

\* the groupby aggregate computed from three query results
AggOf(t, b, w) == GroupBy(WithWeighted(WithIndex(InnerJoin(t, b, w))))

\* C1 (as claimed): every series calculate_cpi returns is non-empty and its
\* row of minimum time_period has cpi_index = 100, whatever the inputs.
C1_RebaseTo100 ==
    Running({"done"}) =>
        /\ Len(cpi_result) > 0
        /\ \A i \in 1..Len(cpi_result) :
              (\A j \in 1..Len(cpi_result) :
                    cpi_result[i].time_period <= cpi_result[j].time_period)
              => cpi_result[i].cpi_index = Hundred

\* C2: a category with period rows but without a weight row or without a
\* base row contributes to no bucket: the aggregate and the series are those
\* of the run without its period rows, and every bucket of the output holds
\* at least one category that has both a base price and a weight.
C2_JoinExclusivity ==
    Running({"rebase", "done"}) =>
        /\ \A c \in Categories \ Matched :
              LET a == AggOf(Drop(time_df, c), base_df, weight_df)
              IN /\ agg = a
                 /\ cpi_result = IF pc = "rebase" THEN CpiSeries(a)
                                 ELSE RebaseSeries(CpiSeries(a), granularity)
        /\ \A t \in DOMAIN agg :
              \E k \in DOMAIN time_df : k[1] = t /\ k[2] \in Matched

\* a returned series with a bucket that a category without weight or base
\* price shares with a matched category
C2_Witness ==
    /\ Running({"done"})
    /\ \E k1, k2 \in DOMAIN time_df :
          /\ k1[1] = k2[1]
          /\ k1[2] \in Matched
          /\ k2[2] \notin Matched

\* the three-way join on category_id has no row
JoinEmpty == \A k \in DOMAIN time_df : k[2] \notin Matched

\* C3: when the three-way join has no row, calculate_cpi does not go on to
\* the index, weighting or rebase steps and returns no series; where it has
\* ended, it has ended in an error handed to the caller.
C3_EmptyJoinRaises ==
    (op = "calculate_cpi" /\ JoinEmpty) =>
        /\ pc \notin {"index", "weighting", "rebase", "done"}
        /\ pc = "raised" => exc # "none"

\* all three queries returned rows, the categories do not match, and the run
\* has ended in the error (the error of a failed query leaves at least one
\* of the three results empty)
C3_Witness ==
    /\ Running({"raised"})
    /\ conn = "closed"
    /\ DOMAIN time_df # {}
    /\ DOMAIN base_df # {}
    /\ DOMAIN weight_df # {}
    /\ JoinEmpty

\* the rows of the joined frame without row k
RemoveRow(m, k) == [j \in DOMAIN m \ {k} |-> m[j]]

\* the totals of bucket t in an aggregate; a bucket without rows sums to 0
TotalWeight(a, t) == IF t \in DOMAIN a THEN a[t].total_weight ELSE Zero
TotalWeighted(a, t) == IF t \in DOMAIN a THEN a[t].total_weighted ELSE Zero

\* row k leaves the totals of its bucket as they are without it
Excluded(k) ==
    LET a == GroupBy(RemoveRow(merged, k))
    IN /\ agg[k[1]].total_weight = TotalWeight(a, k[1])
       /\ agg[k[1]].total_weighted = TotalWeighted(a, k[1])

\* rows of the joined frame with a numeric field that could not be parsed
UnparseableRows ==
    {k \in DOMAIN merged : \/ IsNaN(merged[k].avg_price)
                           \/ IsNaN(merged[k].base_price)
                           \/ IsNaN(merged[k].weight)}

\* C5 (as claimed): a joined row with an unparseable weight leaves the
\* totals of its bucket unchanged, and the run reports a count of the rows
\* that had unparseable numeric fields.
C5_NullWeightExcludedAndCounted ==
    Running({"rebase", "done"}) =>
        \A k \in DOMAIN merged :
            IsNaN(merged[k].weight) =>
                /\ Excluded(k)
                /\ \E i \in 1..Len(warnings) :
                      warnings[i].count = Cardinality(UnparseableRows)

\* every matched category of bucket t has a null or zero weight
ZeroWeightBucket(t) ==
    \A k \in DOMAIN merged :
        k[1] = t => (IsNaN(merged[k].weight) \/ IsZero(merged[k].weight))

\* C6 (as claimed): a bucket whose matched categories all have a null or
\* zero weight is flagged as undefined: its cpi is not reported as 0, its
\* cpi_index is not a number, and the run reports the bucket (a warning
\* other than the invalid-base-price one) instead of dividing silently.
C6_ZeroWeightFlagged ==
    Running({"done"}) =>
        \A i \in 1..Len(cpi_result) :
            ZeroWeightBucket(cpi_result[i].time_period) =>
                /\ ~IsZero(cpi_result[i].cpi)
                /\ ~IsNum(cpi_result[i].cpi_index)
                /\ \E j \in 1..Len(warnings) : warnings[j].kind # "invalid_base_price"

\* C7 (as claimed): a joined row whose base_price is null or zero has a null
\* price_index, changes neither total of its bucket, and lets no infinite
\* value reach cpi or cpi_index.
C7_InvalidBaseExcluded ==
    Running({"rebase", "done"}) =>
        \A k \in DOMAIN merged :
            (IsNaN(merged[k].base_price) \/ IsZero(merged[k].base_price)) =>
                /\ IsNaN(merged[k].price_index)
                /\ Excluded(k)
                /\ \A i \in 1..Len(cpi_result) :
                      /\ ~IsInf(cpi_result[i].cpi)
                      /\ pc = "done" => ~IsInf(cpi_result[i].cpi_index)

\* positions inside the scope of the connection
InScope == {"base", "period", "weights", "query", "exit_ok", "exit_exc"}

\* C8: a connection is open only inside the scope that opened it (the join,
\* the weighting and every position after a return or a raise see it
\* disconnected, in every call of a sequence of calls), and an open
\* connection is eventually disconnected.
C8_ConnectionReleased ==
    /\ [](/\ conn = "open" => pc \in InScope
          /\ Running({"merge", "index", "weighting", "rebase", "done"}) => conn = "closed")
    /\ (conn = "open") ~> (conn = "closed")

\* a query raised inside the scope and the connection was disconnected
\* before the error reached the caller
C8_Witness ==
    /\ pc = "raised"
    /\ exc = "DataSourceError"
    /\ conn = "closed"

Saved == op = "save" /\ pc \in {"write", "done"}

\* number of rows of a frame whose column col has value v
Count(s, col(_), v) == Cardinality({i \in 1..Len(s) : col(s[i]) = v})

DayOf(r) == r.time_period
CombinedDayOf(r) == r.time_period_day
CombinedRowOf(r) == r.day_row

\* C4: with a non-empty daily and a non-empty monthly series the combined
\* frame has as many rows as the daily series, every daily date occurs in it
\* as often as in the daily series, and every daily row occurs exactly once.
C4_MergeCompleteness ==
    (Saved /\ Len(daily_data) > 0 /\ Len(monthly_data) > 0) =>
        /\ Len(combined) = Len(daily_data)
        /\ \A i \in 1..Len(daily_data) :
              /\ Count(combined, CombinedDayOf, daily_data[i].time_period)
                    = Count(daily_data, DayOf, daily_data[i].time_period)
              /\ Count(combined, CombinedRowOf, daily_data[i].row) = 1

\* several daily rows, none on a monthly date, two of them attached to the
\* same monthly row
C4_Witness ==
    /\ Saved
    /\ Len(monthly_data) >= 2
    /\ Len(combined) >= 2
    /\ \A i \in 1..Len(combined) : combined[i].time_period_day # combined[i].time_period_month
    /\ \E i, j \in 1..Len(combined) : i # j /\ combined[i].month_row = combined[j].month_row

\* C9 (as claimed): when the daily or the monthly series is empty, the
\* conversion of the time columns and the merge raise no error, and the
\* combined frame has no rows.
C9_EmptyInputEmptyResult ==
    (op = "save" /\ (Len(daily_data) = 0 \/ Len(monthly_data) = 0)) =>
        /\ exc # "KeyError"
        /\ Saved => Len(combined) = 0

\* C10: every combined row carries a monthly row of the monthly series at
\* the smallest absolute distance from the daily date, and of two monthly
\* rows at that distance the earlier one.
C10_NearestTieEarlier ==
    (Saved /\ Len(monthly_data) > 0) =>
        \A i \in 1..Len(combined) :
            LET d == combined[i].time_period_day
                m == combined[i].time_period_month
            IN /\ \E j \in 1..Len(monthly_data) :
                      /\ monthly_data[j].time_period = m
                      /\ monthly_data[j].row = combined[i].month_row
               /\ \A j \in 1..Len(monthly_data) :
                      LET o == monthly_data[j].time_period
                      IN /\ Abs(d - m) <= Abs(d - o)
                         /\ Abs(d - m) = Abs(d - o) => m <= o

\* a daily row exactly half way between two monthly rows
C10_Witness ==
    /\ Saved
    /\ \E i \in 1..Len(combined), j \in 1..Len(monthly_data) :
          /\ monthly_data[j].time_period # combined[i].time_period_month
          /\ combined[i].time_period_month # combined[i].time_period_day
          /\ Abs(combined[i].time_period_day - monthly_data[j].time_period)
                = Abs(combined[i].time_period_day - combined[i].time_period_month)

====
